---- MODULE Spec2Model ----
(***************************************************************************)
(* Digital Ripples (sketch.js): the activity meter state machine and the   *)
(* ripple field.                                                           *)
(*                                                                         *)
(* Number representation.  The sketch computes in double floats; the model *)
(* uses exact fixed point:                                                 *)
(*   - meter and weights in units of 1/MeterUnit (0.001 = decayRate),      *)
(*   - blackoutAlpha in units of 1/AlphaUnit (exact for map() over 2000 ms *)
(*     and 3000 ms at every whole millisecond),                            *)
(*   - ripple amplitude in units of 1/AmpUnit,                             *)
(*   - times in whole milliseconds.                                        *)
(* Sound, button animation, the quadrant indicator, the debug and          *)
(* fullscreen flags and all canvas drawing calls have no effect on the     *)
(* state modelled here and are left out; the render() calls of a frame are *)
(* recorded in the variable frame.                                         *)
(***************************************************************************)
EXTENDS Integers, Sequences, FiniteSets, TLC

VARIABLES
    clock,            \* the value millis() returns
    activityManager,  \* the ActivityManager object
    ripples,          \* the global ripple array
    frame,            \* what the last draw() rendered: one entry per render() call
    lastEvent         \* the handler that ran last, with its input

vars == <<clock, activityManager, ripples, frame, lastEvent>>

----------------------------------------------------------------------------
(* Bounds *)

MaxTime == 32000       \* SpecAM: millis() stays within this
MaxFieldTime == 4000   \* SpecField: millis() stays within this
MaxCycleTime == 20000  \* SpecCycle: millis() stays within this
LiveHorizon == 10000   \* SpecLive: the clock is kept within this of its origin
MaxRipples == 2        \* length of the ripple array

(* Fixed-point units *)
MeterUnit == 1000
AlphaUnit == 400
AmpUnit == 100

----------------------------------------------------------------------------
(* Global constants.  ACTIONS and STATE are reserved words of TLA+, so the  *)
(* tables of those names are called Actions and State here.                *)

CANVAS_WIDTH == 1920
CANVAS_HEIGHT == 1080
UI_PANEL_HEIGHT == 200
POND_HEIGHT == CANVAS_HEIGHT - UI_PANEL_HEIGHT

Actions ==
    [ LIKE             |-> [quadrant |-> 1, x |-> 1,  y |-> 0,  label |-> "Happy"],
      DISLIKE          |-> [quadrant |-> 2, x |-> -1, y |-> 0,  label |-> "Sad"],
      POSITIVE_COMMENT |-> [quadrant |-> 3, x |-> 0,  y |-> -1, label |-> "Noise"],
      NEGATIVE_COMMENT |-> [quadrant |-> 4, x |-> 0,  y |-> 1,  label |-> "Silence"] ]

ActionObjects ==
    {Actions.LIKE, Actions.DISLIKE, Actions.POSITIVE_COMMENT, Actions.NEGATIVE_COMMENT}

State == [CALM |-> "CALM", ACTIVE |-> "ACTIVE", OVERLOAD |-> "OVERLOAD", RECOVER |-> "RECOVER"]

min(a, b) == IF a < b THEN a ELSE b
max(a, b) == IF a > b THEN a ELSE b

(* p5 map(n, start1, stop1, start2, stop2) without clamping; the result is *)
(* in units of 1/unit.                                                     *)
map(n, start1, stop1, start2, stop2, unit) ==
    ((n - start1) * (stop2 - start2) * unit) \div (stop1 - start1) + start2 * unit

----------------------------------------------------------------------------
(* ACTIVITY MANAGER *)

(* JavaScript values that can be passed as an action: an object literal is *)
(* a record with the properties of the action objects; a primitive         *)
(* (undefined, null, a string) is a record holding only its string form,   *)
(* as label.                                                               *)
undefined == [label |-> "undefined"]
IsObject(v) == "quadrant" \in DOMAIN v

(* A JavaScript property key: an object used as a key is converted with    *)
(* toString(), which for a plain object literal is "[object Object]"; a    *)
(* primitive is converted to its string form.                              *)
ToPropertyKey(v) == IF IsObject(v) THEN "[object Object]" ELSE v.label

(* An object literal with computed keys defines its properties in source   *)
(* order; defining an existing key again overwrites its value.             *)
RECURSIVE ObjectLiteral(_, _)
ObjectLiteral(entries, n) ==
    IF n = 0 THEN << >>
    ELSE LET rest == ObjectLiteral(entries, n - 1)
             key == ToPropertyKey(entries[n][1])
         IN  [k \in (DOMAIN rest) \cup {key} |->
                 IF k = key THEN entries[n][2] ELSE rest[k]]

weights ==
    LET entries == << <<Actions.LIKE, 150>>,
                      <<Actions.DISLIKE, 180>>,
                      <<Actions.POSITIVE_COMMENT, 200>>,
                      <<Actions.NEGATIVE_COMMENT, 120>> >>
    IN  ObjectLiteral(entries, Len(entries))

ActivityManager ==
    [ meter |-> 0,
      state |-> State.CALM,
      overloadThreshold |-> 1 * MeterUnit,
      decayRate |-> 1,
      overloadStartTime |-> 0,
      recoverStartTime |-> 0,
      blackoutAlpha |-> 0 ]

(* Mutant of triggerOverload: blackoutAlpha is not reset *)
triggerOverload_keepAlpha(am, t) ==
    [am EXCEPT !.state = State.OVERLOAD,
               !.overloadStartTime = t]

triggerOverload(am, t) ==
    [am EXCEPT !.state = State.OVERLOAD,
               !.overloadStartTime = t,
               !.blackoutAlpha = 0]

(* Mutant of addActivity: activity is dropped in Recover as in Overload *)
addActivity_guardRecover(am, actionType, t) ==
    IF am.state = State.OVERLOAD \/ am.state = State.RECOVER THEN am
    ELSE
        LET key == ToPropertyKey(actionType)
            weight == IF key \in DOMAIN weights THEN weights[key] ELSE 150
            am1 == [am EXCEPT !.meter = min(am.meter + weight, 1500)]
            am2 == IF am1.meter > 300 /\ am1.state = State.CALM
                   THEN [am1 EXCEPT !.state = State.ACTIVE]
                   ELSE am1
        IN  IF am2.meter >= am2.overloadThreshold /\ am2.state # State.OVERLOAD
            THEN triggerOverload(am2, t)
            ELSE am2

(* Mutants of addActivity: without the Overload guard; without the ceiling *)
addActivity_noGuard(am, actionType, t) ==
    LET key == ToPropertyKey(actionType)
        weight == IF key \in DOMAIN weights THEN weights[key] ELSE 150
        am1 == [am EXCEPT !.meter = min(am.meter + weight, 1500)]
        am2 == IF am1.meter > 300 /\ am1.state = State.CALM
               THEN [am1 EXCEPT !.state = State.ACTIVE]
               ELSE am1
    IN  IF am2.meter >= am2.overloadThreshold
        THEN triggerOverload(am2, t)
        ELSE am2

addActivity_noCeiling(am, actionType, t) ==
    IF am.state = State.OVERLOAD THEN am
    ELSE
        LET key == ToPropertyKey(actionType)
            weight == IF key \in DOMAIN weights THEN weights[key] ELSE 150
            am1 == [am EXCEPT !.meter = am.meter + weight]
            am2 == IF am1.meter > 300 /\ am1.state = State.CALM
                   THEN [am1 EXCEPT !.state = State.ACTIVE]
                   ELSE am1
        IN  IF am2.meter >= am2.overloadThreshold /\ am2.state # State.OVERLOAD
            THEN triggerOverload(am2, t)
            ELSE am2

addActivity(am, actionType, t) ==
    IF am.state = State.OVERLOAD THEN am
    ELSE
        LET key == ToPropertyKey(actionType)
            weight == IF key \in DOMAIN weights THEN weights[key] ELSE 150
            am1 == [am EXCEPT !.meter = min(am.meter + weight, 1500)]
            am2 == IF am1.meter > 300 /\ am1.state = State.CALM
                   THEN [am1 EXCEPT !.state = State.ACTIVE]
                   ELSE am1
        IN  IF am2.meter >= am2.overloadThreshold /\ am2.state # State.OVERLOAD
            THEN triggerOverload(am2, t)
            ELSE am2

(* Mutant of updateDecay: Active becomes Calm at 0.2 already *)
updateDecay_atThreshold(am) ==
    IF am.state = State.CALM \/ am.state = State.ACTIVE
    THEN LET am1 == [am EXCEPT !.meter = max(0, am.meter - am.decayRate)]
         IN  IF am1.meter <= 200 /\ am1.state = State.ACTIVE
             THEN [am1 EXCEPT !.state = State.CALM]
             ELSE am1
    ELSE am

(* Mutant of updateDecay: the meter decays in Recover too *)
updateDecay_inRecover(am) ==
    IF am.state = State.CALM \/ am.state = State.ACTIVE \/ am.state = State.RECOVER
    THEN LET am1 == [am EXCEPT !.meter = max(0, am.meter - am.decayRate)]
         IN  IF am1.meter < 200 /\ am1.state = State.ACTIVE
             THEN [am1 EXCEPT !.state = State.CALM]
             ELSE am1
    ELSE am

updateDecay(am) ==
    IF am.state = State.CALM \/ am.state = State.ACTIVE
    THEN LET am1 == [am EXCEPT !.meter = max(0, am.meter - am.decayRate)]
         IN  IF am1.meter < 200 /\ am1.state = State.ACTIVE
             THEN [am1 EXCEPT !.state = State.CALM]
             ELSE am1
    ELSE am

(* Mutant of updateOverload: the Overload is held for 2000 ms only *)
updateOverload_short(am, t) ==
    IF am.state = State.OVERLOAD
    THEN LET elapsed == t - am.overloadStartTime
             am1 == IF elapsed < 2000
                    THEN [am EXCEPT !.blackoutAlpha = map(elapsed, 0, 2000, 0, 255, AlphaUnit)]
                    ELSE [am EXCEPT !.blackoutAlpha = 255 * AlphaUnit]
         IN  IF elapsed > 2000
             THEN [am1 EXCEPT !.state = State.RECOVER, !.recoverStartTime = t]
             ELSE am1
    ELSE am

(* Mutant of updateOverload: recovery starts at 7000 ms instead of after *)
updateOverload_at7000(am, t) ==
    IF am.state = State.OVERLOAD
    THEN LET elapsed == t - am.overloadStartTime
             am1 == IF elapsed < 2000
                    THEN [am EXCEPT !.blackoutAlpha = map(elapsed, 0, 2000, 0, 255, AlphaUnit)]
                    ELSE [am EXCEPT !.blackoutAlpha = 255 * AlphaUnit]
         IN  IF elapsed >= 7000
             THEN [am1 EXCEPT !.state = State.RECOVER, !.recoverStartTime = t]
             ELSE am1
    ELSE am

updateOverload(am, t) ==
    IF am.state = State.OVERLOAD
    THEN LET elapsed == t - am.overloadStartTime
             am1 == IF elapsed < 2000
                    THEN [am EXCEPT !.blackoutAlpha = map(elapsed, 0, 2000, 0, 255, AlphaUnit)]
                    ELSE [am EXCEPT !.blackoutAlpha = 255 * AlphaUnit]
         IN  IF elapsed > 7000
             THEN [am1 EXCEPT !.state = State.RECOVER, !.recoverStartTime = t]
             ELSE am1
    ELSE am

(* Mutant of updateRecover: the meter is not reset when recovery ends *)
updateRecover_noReset(am, t) ==
    IF am.state = State.RECOVER
    THEN LET elapsed == t - am.recoverStartTime
         IN  IF elapsed < 3000
             THEN [am EXCEPT !.blackoutAlpha = map(elapsed, 0, 3000, 255, 0, AlphaUnit)]
             ELSE [am EXCEPT !.blackoutAlpha = 0,
                             !.state = State.CALM]
    ELSE am

(* Mutant of updateRecover: recovery ends in ACTIVE *)
updateRecover_toActive(am, t) ==
    IF am.state = State.RECOVER
    THEN LET elapsed == t - am.recoverStartTime
         IN  IF elapsed < 3000
             THEN [am EXCEPT !.blackoutAlpha = map(elapsed, 0, 3000, 255, 0, AlphaUnit)]
             ELSE [am EXCEPT !.blackoutAlpha = 0,
                             !.meter = 300,
                             !.state = State.ACTIVE]
    ELSE am

updateRecover(am, t) ==
    IF am.state = State.RECOVER
    THEN LET elapsed == t - am.recoverStartTime
         IN  IF elapsed < 3000
             THEN [am EXCEPT !.blackoutAlpha = map(elapsed, 0, 3000, 255, 0, AlphaUnit)]
             ELSE [am EXCEPT !.blackoutAlpha = 0,
                             !.meter = 300,
                             !.state = State.CALM]
    ELSE am

update(am, t) == updateRecover(updateOverload(updateDecay(am), t), t)

(* Mutant of shouldSpawnRipples: spawning is stopped in Recover, not in Overload *)
shouldSpawnRipples_recover(am) == am.state # State.RECOVER

shouldSpawnRipples(am) == am.state # State.OVERLOAD

----------------------------------------------------------------------------
(* p5 random().  The generator is an input: a stream is one of the         *)
(* sequences of values in [0, 1) the generator may produce, here in        *)
(* quarters; the k-th call made by a handler takes the k-th value of the   *)
(* stream.                                                                 *)

RandomStreams == {0}

randomQuarter(stream, k) == (stream + 3 * (k - 1)) % 4

(* random(lo, hi) = lo + u * (hi - lo) *)
random(stream, k, lo, hi) == lo + (randomQuarter(stream, k) * (hi - lo)) \div 4

(* random(TWO_PI) in quarter turns, and cos and sin of such an angle *)
randomAngle(stream, k) == randomQuarter(stream, k)
cos(angle) == CASE angle % 4 = 0 -> 1 [] angle % 4 = 2 -> -1 [] OTHER -> 0
sin(angle) == CASE angle % 4 = 1 -> 1 [] angle % 4 = 3 -> -1 [] OTHER -> 0

----------------------------------------------------------------------------
(* ACTIVITY MANAGER: the values derived from the meter, in units of        *)
(* 1/ModulationUnit (exact for every meter value in units of 1/MeterUnit). *)

ModulationUnit == 10000

(* p5 constrain(n, low, high) *)
constrain(n, low, high) == max(min(n, high), low)

(* p5 map(n, start1, stop1, start2, stop2, true) *)
mapWithinBounds(n, start1, stop1, start2, stop2) ==
    LET newval == map(n, start1, stop1, start2, stop2, 1)
    IN  IF start2 < stop2 THEN constrain(newval, start2, stop2)
        ELSE constrain(newval, stop2, start2)

(* Mutant of getBackgroundTurbulence: map() without withinBounds *)
getBackgroundTurbulence_unbounded(am) ==
    map(am.meter, 0, 1 * MeterUnit,
        (3 * ModulationUnit) \div 10, (15 * ModulationUnit) \div 10, 1)

getBackgroundTurbulence(am) ==
    mapWithinBounds(am.meter, 0, 1 * MeterUnit,
                    (3 * ModulationUnit) \div 10, (15 * ModulationUnit) \div 10)

getVignetteIntensity(am) ==
    mapWithinBounds(am.meter, (5 * MeterUnit) \div 10, 1 * MeterUnit,
                    0, (8 * ModulationUnit) \div 10)

(* getFlickerIntensity(), its random() call being the k-th of the stream *)
getFlickerIntensity(am, stream, k) ==
    IF am.meter > (7 * MeterUnit) \div 10
    THEN random(stream, k, 0,
                mapWithinBounds(am.meter, (7 * MeterUnit) \div 10, 1 * MeterUnit,
                                0, (3 * ModulationUnit) \div 10))
    ELSE 0

----------------------------------------------------------------------------
(* RIPPLE CLASS *)

(* amplitude in 1/AmpUnit, damping in 1/100, speed in 1/10 *)
getActionParams(actionType) ==
    CASE actionType = Actions.LIKE ->
            [maxRadius |-> 400, amplitude |-> 1 * AmpUnit, damping |-> 95,
             speed |-> 35, lifespan |-> 3000, color |-> <<100, 200, 255, 180>>]
      [] actionType = Actions.DISLIKE ->
            [maxRadius |-> 350, amplitude |-> (8 * AmpUnit) \div 10, damping |-> 92,
             speed |-> 20, lifespan |-> 4000, color |-> <<150, 100, 150, 160>>]
      [] actionType = Actions.POSITIVE_COMMENT ->
            [maxRadius |-> 300, amplitude |-> (6 * AmpUnit) \div 10, damping |-> 98,
             speed |-> 40, lifespan |-> 2500, color |-> <<255, 220, 100, 140>>]
      [] actionType = Actions.NEGATIVE_COMMENT ->
            [maxRadius |-> 250, amplitude |-> (4 * AmpUnit) \div 10, damping |-> 99,
             speed |-> 25, lifespan |-> 3500, color |-> <<50, 50, 80, 120>>]

(* Mutant of generateMicroRipples: dist = random(20, 120) *)
generateMicroRipples_far(x, y, startTime, stream, first) ==
    [i \in 1..15 |->
        LET k == first + 4 * (i - 1)
            angle == randomAngle(stream, k)
            dist == random(stream, k + 1, 20, 120)
        IN  [x |-> x + cos(angle) * dist,
             y |-> y + sin(angle) * dist,
             startTime |-> startTime + random(stream, k + 2, -100, 100),
             radius |-> random(stream, k + 3, 2 * 30, 2 * 60)]]

(* The i-th micro-ripple takes the random values first + 4(i-1) ..         *)
(* first + 4(i-1) + 3 of the stream.  radius is in halves of a pixel.      *)
generateMicroRipples(x, y, startTime, stream, first) ==
    [i \in 1..15 |->
        LET k == first + 4 * (i - 1)
            angle == randomAngle(stream, k)
            dist == random(stream, k + 1, 20, 80)
        IN  [x |-> x + cos(angle) * dist,
             y |-> y + sin(angle) * dist,
             startTime |-> startTime + random(stream, k + 2, -100, 100),
             radius |-> random(stream, k + 3, 2 * 30, 2 * 60)]]

(* new Ripple(x, y, actionType, startTime); the generator has been called  *)
(* twice (by getSpawnPoint) before the constructor runs.                   *)
Ripple(x, y, actionType, startTime, stream) ==
    LET params == getActionParams(actionType)
    IN  [x |-> x, y |-> y, actionType |-> actionType, startTime |-> startTime,
         age |-> 0,
         maxRadius |-> params.maxRadius,
         amplitude |-> params.amplitude,
         damping |-> params.damping,
         speed |-> params.speed,
         lifespan |-> params.lifespan,
         color |-> params.color,
         microRipples |-> IF actionType = Actions.POSITIVE_COMMENT
                          THEN generateMicroRipples(x, y, startTime, stream, 3)
                          ELSE << >>]

(* Mutant of Ripple.update: a ripple whose age equals its lifespan is alive *)
rippleUpdate_inclusive(ripple, currentTime) ==
    LET r == [ripple EXCEPT !.age = currentTime - ripple.startTime]
    IN  [ripple |-> r, alive |-> r.age <= r.lifespan]

(* Ripple.update: the ripple with its age set, and the value returned *)
rippleUpdate(ripple, currentTime) ==
    LET r == [ripple EXCEPT !.age = currentTime - ripple.startTime]
    IN  [ripple |-> r, alive |-> r.age < r.lifespan]

(* Mutant of getCurrentRadius: without the min() with maxRadius *)
getCurrentRadius_unbounded(ripple) ==
    [num |-> ripple.age * ripple.speed * 5,
     den |-> ripple.lifespan]

(* getCurrentRadius() = min(progress * speed * 50, maxRadius) as the       *)
(* fraction num / den with den = lifespan.                                 *)
getCurrentRadius(ripple) ==
    [num |-> min(ripple.age * ripple.speed * 5, ripple.maxRadius * ripple.lifespan),
     den |-> ripple.lifespan]

RECURSIVE SqrtSearch(_, _, _)
SqrtSearch(n, lo, hi) ==
    IF lo >= hi THEN lo
    ELSE LET mid == (lo + hi + 1) \div 2
         IN  IF mid * mid <= n THEN SqrtSearch(n, mid, hi)
             ELSE SqrtSearch(n, lo, mid - 1)

(* floor of Math.sqrt(n), for n below 2^24 *)
FloorSqrt(n) == SqrtSearch(n, 0, 4096)

(* Math.sqrt(sq) < num / den, decided exactly *)
SqrtLess(sq, num, den) ==
    LET s == FloorSqrt(sq)
    IN  IF s * s = sq THEN s * den < num
        ELSE IF num <= s * den THEN FALSE
        ELSE IF num >= (s + 1) * den THEN TRUE
        ELSE sq * den * den < num * num

(* Mutant of shouldDamp: without the test otherRipple === this *)
shouldDamp_self(arr, this, other) ==
    IF arr[this].actionType # Actions.NEGATIVE_COMMENT THEN FALSE
    ELSE LET dx == arr[this].x - arr[other].x
             dy == arr[this].y - arr[other].y
             radius == getCurrentRadius(arr[this])
         IN  SqrtLess(dx * dx + dy * dy, 3 * radius.num, 2 * radius.den)

(* this.shouldDamp(otherRipple): arr is the ripple array as it is when the *)
(* call is made, this and other are positions in it (otherRipple === this  *)
(* compares object identity, which the position stands for).               *)
shouldDamp(arr, this, other) ==
    IF arr[this].actionType # Actions.NEGATIVE_COMMENT THEN FALSE
    ELSE IF other = this THEN FALSE
    ELSE LET dx == arr[this].x - arr[other].x
             dy == arr[this].y - arr[other].y
             radius == getCurrentRadius(arr[this])
         IN  \* distance < radius * 1.5
             SqrtLess(dx * dx + dy * dy, 3 * radius.num, 2 * radius.den)

----------------------------------------------------------------------------
(* UI MANAGER (hit-testing only) *)

(* null, as a value comparable with the action objects *)
null == [label |-> "null"]

buttons ==
    LET buttonWidth == 200
        buttonSpacing == 30
        buttonHeight == 150
        startX == (CANVAS_WIDTH - (4 * buttonWidth + 3 * buttonSpacing)) \div 2
        y == POND_HEIGHT + (UI_PANEL_HEIGHT - buttonHeight) \div 2
    IN  << [action |-> Actions.LIKE, x |-> startX, y |-> y],
           [action |-> Actions.DISLIKE, x |-> startX + buttonWidth + buttonSpacing, y |-> y],
           [action |-> Actions.POSITIVE_COMMENT,
            x |-> startX + 2 * (buttonWidth + buttonSpacing), y |-> y],
           [action |-> Actions.NEGATIVE_COMMENT,
            x |-> startX + 3 * (buttonWidth + buttonSpacing), y |-> y] >>

handleClick(mx, my) ==
    LET hit(b) == /\ mx >= b.x /\ mx <= b.x + 200
                  /\ my >= b.y /\ my <= b.y + 150
        hits == {i \in DOMAIN buttons : hit(buttons[i])}
    IN  IF hits = {} THEN null
        ELSE buttons[CHOOSE i \in hits : \A j \in hits : i <= j].action

----------------------------------------------------------------------------
(* SPAWN POINT *)

getSpawnPoint(actionType, stream) ==
    LET centerX == CANVAS_WIDTH \div 2
        centerY == POND_HEIGHT \div 2
    IN  CASE actionType = Actions.LIKE ->
                [x |-> random(stream, 1, centerX, CANVAS_WIDTH - 100),
                 y |-> random(stream, 2, 100, POND_HEIGHT - 100)]
          [] actionType = Actions.DISLIKE ->
                [x |-> random(stream, 1, 100, centerX),
                 y |-> random(stream, 2, 100, POND_HEIGHT - 100)]
          [] actionType = Actions.POSITIVE_COMMENT ->
                [x |-> random(stream, 1, 100, CANVAS_WIDTH - 100),
                 y |-> random(stream, 2, 100, centerY)]
          [] actionType = Actions.NEGATIVE_COMMENT ->
                [x |-> random(stream, 1, 100, CANVAS_WIDTH - 100),
                 y |-> random(stream, 2, centerY, POND_HEIGHT - 100)]

----------------------------------------------------------------------------
(* DRAW: the ripples.filter(...) pass *)

(* Mutant of renderDamped: the amplitude is not put back *)
renderDamped_kept(ripple) ==
    LET scaled == [ripple EXCEPT !.amplitude = (ripple.amplitude * 3) \div 10]
    IN  [seen |-> scaled, left |-> scaled]

(* The damped branch of the callback: the ripple as render() reads it      *)
(* (amplitude *= 0.3) and as it is left (amplitude = oldAmp).              *)
renderDamped(ripple) ==
    LET oldAmp == ripple.amplitude
        scaled == [ripple EXCEPT !.amplitude = (ripple.amplitude * 3) \div 10]
    IN  [seen |-> scaled, left |-> [scaled EXCEPT !.amplitude = oldAmp]]

(* The ripples the damping loop "for (let other of ripples)" goes through: *)
(* the global array, which filter() has not replaced yet.                  *)
dampingCandidates(arr) == DOMAIN arr

(* The filter callback on element i of arr at time currentTime: the array  *)
(* with the callback's mutations, the value returned, and the render()     *)
(* calls made.                                                             *)
filterCallback(arr, i, currentTime) ==
    LET u == rippleUpdate(arr[i], currentTime)
        arr1 == [arr EXCEPT ![i] = u.ripple]
    IN  IF ~u.alive
        THEN [arr |-> arr1, alive |-> FALSE, rendered |-> << >>]
        ELSE IF ~(\E other \in dampingCandidates(arr1) : shouldDamp(arr1, other, i))
        THEN [arr |-> arr1, alive |-> TRUE,
              rendered |-> << [index |-> i, ripple |-> arr1[i], damped |-> FALSE] >>]
        ELSE LET rd == renderDamped(arr1[i])
             IN  [arr |-> [arr1 EXCEPT ![i] = rd.left], alive |-> TRUE,
                  rendered |-> << [index |-> i, ripple |-> rd.seen, damped |-> TRUE] >>]

RECURSIVE filterRipples(_, _, _, _, _)
filterRipples(arr, i, currentTime, kept, rendered) ==
    IF i > Len(arr) THEN [ripples |-> kept, frame |-> rendered]
    ELSE LET c == filterCallback(arr, i, currentTime)
         IN  filterRipples(c.arr, i + 1, currentTime,
                           IF c.alive THEN Append(kept, c.arr[i]) ELSE kept,
                           rendered \o c.rendered)

----------------------------------------------------------------------------
(* Inputs *)

TickDeltas == {1000, 2000}             \* milliseconds from one frame to the next
Keys == {"d", "f", "1", "2", "3", "4", "x"}
ClickPoints == {<<600, 950>>, <<800, 950>>, <<1000, 950>>, <<1300, 950>>, <<960, 440>>}

----------------------------------------------------------------------------
(* setup() *)

Init ==
    /\ clock = 0
    /\ activityManager = ActivityManager
    /\ ripples = << >>
    /\ frame = << >>
    /\ lastEvent = [op |-> "setup", arg |-> ""]

(* draw(), d milliseconds after the previous event *)
Draw(d) ==
    /\ clock' = clock + d
    /\ activityManager' = update(activityManager, clock')
    /\ LET f == filterRipples(ripples, 1, clock', << >>, << >>)
       IN  /\ ripples' = f.ripples
           /\ frame' = f.frame
    /\ lastEvent' = [op |-> "draw", arg |-> ""]

(* The body shared by mousePressed and the four key branches *)
spawn(action, stream) ==
    LET at == getSpawnPoint(action, stream)
        ripple == Ripple(at.x, at.y, action, clock, stream)
    IN  /\ ripples' = Append(ripples, ripple)
        /\ activityManager' = addActivity(activityManager, action, clock)

MousePressed(mx, my, stream) ==
    LET action == handleClick(mx, my)
    IN  /\ IF action # null /\ shouldSpawnRipples(activityManager)
           THEN /\ Len(ripples) < MaxRipples
                /\ spawn(action, stream)
           ELSE UNCHANGED <<ripples, activityManager>>
        /\ lastEvent' = [op |-> "mousePressed", arg |-> action.label]
        /\ UNCHANGED <<clock, frame>>

keyAction(key) ==
    CASE key = "1" -> Actions.LIKE
      [] key = "2" -> Actions.DISLIKE
      [] key = "3" -> Actions.POSITIVE_COMMENT
      [] key = "4" -> Actions.NEGATIVE_COMMENT
      [] OTHER -> null

(* keyPressed(); the keys d and f change only the debug and fullscreen     *)
(* flags.                                                                  *)
KeyPressed(key, stream) ==
    /\ IF keyAction(key) # null /\ shouldSpawnRipples(activityManager)
       THEN /\ Len(ripples) < MaxRipples
            /\ spawn(keyAction(key), stream)
       ELSE UNCHANGED <<ripples, activityManager>>
    /\ lastEvent' = [op |-> "keyPressed", arg |-> keyAction(key).label]
    /\ UNCHANGED <<clock, frame>>

Events ==
    \/ \E p \in ClickPoints, stream \in RandomStreams : MousePressed(p[1], p[2], stream)
    \/ \E key \in Keys, stream \in RandomStreams : KeyPressed(key, stream)

(* The sketch from setup(), over a short time: the ripple field *)
NextField ==
    \/ \E d \in TickDeltas : clock + d <= MaxFieldTime /\ Draw(d)
    \/ Events

SpecField == Init /\ [][NextField]_vars

----------------------------------------------------------------------------
(* The sketch over a whole overload cycle.  It starts in the state the     *)
(* sketch is in after setup(), eight actions at time 0 and two frames, at  *)
(* 2000 ms and 4000 ms: the eight ripples have expired and the meter is    *)
(* one action below the overload threshold.                                *)

RECURSIVE WarmUpRipples(_)
WarmUpRipples(n) ==
    IF n = 0 THEN << >>
    ELSE LET action == buttons[1 + (n % 4)].action
             at == getSpawnPoint(action, 0)
         IN  Append(WarmUpRipples(n - 1), Ripple(at.x, at.y, action, 0, 0))

RECURSIVE WarmUpActivity(_)
WarmUpActivity(n) ==
    IF n = 0 THEN ActivityManager
    ELSE addActivity(WarmUpActivity(n - 1), buttons[1 + (n % 4)].action, 0)

InitCycle ==
    LET f1 == filterRipples(WarmUpRipples(8), 1, 2000, << >>, << >>)
        f2 == filterRipples(f1.ripples, 1, 4000, << >>, << >>)
    IN  /\ clock = 4000
        /\ activityManager = update(update(WarmUpActivity(8), 2000), 4000)
        /\ ripples = f2.ripples
        /\ frame = f2.frame
        /\ lastEvent = [op |-> "draw", arg |-> ""]

NextCycle ==
    \/ \E d \in TickDeltas : clock + d <= MaxCycleTime /\ Draw(d)
    \/ Events

SpecCycle == InitCycle /\ [][NextCycle]_vars

----------------------------------------------------------------------------
(* The ActivityManager on its own: addActivity and update called directly, *)
(* in any state.                                                           *)

ActivityKinds == ActionObjects

AddActivity(actionType) ==
    /\ activityManager' = addActivity(activityManager, actionType, clock)
    /\ lastEvent' = [op |-> "addActivity", arg |-> actionType.label]
    /\ UNCHANGED <<clock, ripples, frame>>

Update(d) ==
    /\ clock' = clock + d
    /\ activityManager' = update(activityManager, clock')
    /\ lastEvent' = [op |-> "update", arg |-> ""]
    /\ UNCHANGED <<ripples, frame>>

NextAM ==
    \/ \E actionType \in ActivityKinds : AddActivity(actionType)
    \/ \E d \in TickDeltas : clock + d <= MaxTime /\ Update(d)

SpecAM == Init /\ [][NextAM]_vars

----------------------------------------------------------------------------
(* The ActivityManager called with any value as the action: the four       *)
(* action objects, undefined, and an object that is none of the four.      *)

UnrecognizedKinds == {undefined, [quadrant |-> 5, x |-> 0, y |-> 0, label |-> "Share"]}

NextBoundary ==
    \/ \E actionType \in ActivityKinds \cup UnrecognizedKinds : AddActivity(actionType)
    \/ \E d \in TickDeltas : clock + d <= MaxFieldTime /\ Update(d)

SpecBoundary == Init /\ [][NextBoundary]_vars

----------------------------------------------------------------------------
(* The ActivityManager with no end of time.  update and addActivity read   *)
(* millis() only to store it in overloadStartTime and recoverStartTime and *)
(* to subtract these from it, so the origin of the clock is immaterial:    *)
(* once the clock has reached LiveHorizon the origin is moved forward at   *)
(* every tick, and a start time that falls before the origin is kept as    *)
(* the origin (the elapsed time is then LiveHorizon or more, beyond the    *)
(* 7000 ms and 3000 ms the code compares it with).  The frames keep        *)
(* coming: draw() is called by the p5 frame loop for as long as the sketch *)
(* runs, and each call sees a later millis().                              *)

Rebase(am, t) ==
    LET shift == max(0, t - LiveHorizon)
    IN  [am EXCEPT !.overloadStartTime = max(0, am.overloadStartTime - shift),
                   !.recoverStartTime = max(0, am.recoverStartTime - shift)]

UpdateLive(d) ==
    LET t == clock + d
    IN  /\ clock' = min(t, LiveHorizon)
        /\ activityManager' = Rebase(update(activityManager, t), t)
        /\ lastEvent' = [op |-> "update", arg |-> ""]
        /\ UNCHANGED <<ripples, frame>>

Tick == \E d \in TickDeltas : UpdateLive(d)

NextLive ==
    \/ \E actionType \in ActivityKinds : AddActivity(actionType)
    \/ Tick

SpecLive == Init /\ [][NextLive]_vars /\ WF_vars(Tick)

----------------------------------------------------------------------------
(* PROPERTIES *)

IsUpdateStep == lastEvent'.op = "update"
IsAddActivityStep == lastEvent'.op = "addActivity"
IsDrawStep == lastEvent'.op = "draw"
IsActionStep == lastEvent'.op \in {"mousePressed", "keyPressed"} /\ lastEvent'.arg # null.label

(* C1: from Calm, an addActivity that takes the meter to 1.0 or more puts  *)
(* the state in Overload; an update tick in Overload leaves it Overload    *)
(* while the time since entry is at most 7000 ms and makes it Recover once *)
(* it is more; an update tick in Recover leaves it Recover until 3000 ms   *)
(* have passed since Recover was entered, and then makes it Calm with      *)
(* meter = 0.3.                                                            *)
C1_OverloadCycle ==
    [][ /\ ( /\ IsAddActivityStep
             /\ activityManager.state # State.OVERLOAD
             /\ activityManager'.meter >= 1 * MeterUnit )
           => ( /\ activityManager'.state = State.OVERLOAD
                /\ activityManager'.overloadStartTime = clock' )
        /\ (IsUpdateStep /\ activityManager.state = State.OVERLOAD)
           => IF clock' - activityManager.overloadStartTime <= 7000
              THEN activityManager'.state = State.OVERLOAD
              ELSE /\ activityManager'.state = State.RECOVER
                   /\ activityManager'.recoverStartTime = clock'
        /\ (IsUpdateStep /\ activityManager.state = State.RECOVER)
           => IF clock' - activityManager.recoverStartTime >= 3000
              THEN /\ activityManager'.state = State.CALM
                   /\ activityManager'.meter = (3 * MeterUnit) \div 10
              ELSE activityManager'.state = State.RECOVER
      ]_vars

(* A whole cycle has run: Calm again, meter 0.3, after an Overload that    *)
(* began at time 0 and was held for 8000 ms.                               *)
C1_Witness ==
    /\ lastEvent.op = "update"
    /\ activityManager.state = State.CALM
    /\ activityManager.meter = 300
    /\ activityManager.overloadStartTime = 0
    /\ activityManager.recoverStartTime = 8000
    /\ clock = 11000

(* C2: 0 <= meter <= 1.5 in every reachable state *)
C2_MeterRange ==
    /\ activityManager.meter >= 0
    /\ 2 * activityManager.meter <= 3 * MeterUnit

(* The ceiling has cut an addition: the meter is at 1.5 *)
C2_Witness ==
    /\ lastEvent.op = "addActivity"
    /\ 2 * activityManager.meter = 3 * MeterUnit

(* C3: addActivity while the state is Overload changes nothing of the      *)
(* ActivityManager (meter, state, start times, blackoutAlpha).             *)
C3_NoOpInOverload ==
    [][ (IsAddActivityStep /\ activityManager.state = State.OVERLOAD)
           => activityManager' = activityManager ]_vars

(* addActivity has been called in the middle of an Overload *)
C3_Witness ==
    /\ lastEvent.op = "addActivity"
    /\ activityManager.state = State.OVERLOAD
    /\ clock > activityManager.overloadStartTime

(* The activity weights the claim C5 gives, by the label of the action *)
ClaimedWeight(label) ==
    CASE label = "Happy" -> 150
      [] label = "Sad" -> 180
      [] label = "Noise" -> 200
      [] label = "Silence" -> 120

(* C5: outside Overload addActivity(kind) sets meter to                    *)
(* min(meter + w(kind), 1.5) with w the weight of that kind: Like 0.15,    *)
(* Dislike 0.18, Positive comment 0.20, Negative comment 0.12.             *)
C5_WeightPerKind ==
    [][ (IsAddActivityStep /\ activityManager.state # State.OVERLOAD)
           => activityManager'.meter =
                 min(activityManager.meter + ClaimedWeight(lastEvent'.arg), 1500) ]_vars

(* C6: the state changes only Calm->Active, Active->Calm, Overload->Recover, *)
(* Recover->Calm, or from Calm, Active or Recover to Overload.             *)
AllowedTransitions ==
    { <<State.CALM, State.ACTIVE>>, <<State.ACTIVE, State.CALM>>,
      <<State.CALM, State.OVERLOAD>>, <<State.ACTIVE, State.OVERLOAD>>,
      <<State.RECOVER, State.OVERLOAD>>,
      <<State.OVERLOAD, State.RECOVER>>, <<State.RECOVER, State.CALM>> }

C6_Transitions ==
    [][ \/ activityManager'.state = activityManager.state
        \/ <<activityManager.state, activityManager'.state>> \in AllowedTransitions ]_vars

(* Overload has been entered from Recover, and earlier from Active *)
C6_Witness ==
    /\ activityManager.state = State.OVERLOAD
    /\ activityManager.recoverStartTime > 0
    /\ activityManager.overloadStartTime >= activityManager.recoverStartTime
    /\ activityManager.overloadStartTime < activityManager.recoverStartTime + 3000

ActionByLabel(label) == CHOOSE a \in ActionObjects : a.label = label

(* C4: a button click or key 1-4 while the state is Overload adds no       *)
(* ripple and leaves the ActivityManager as it is; in any other state it   *)
(* appends exactly one ripple of that kind and the ActivityManager becomes *)
(* what one addActivity of that kind makes of it.                          *)
C4_SpawnGate ==
    [][ IsActionStep =>
          IF activityManager.state = State.OVERLOAD
          THEN /\ ripples' = ripples
               /\ activityManager' = activityManager
          ELSE /\ Len(ripples') = Len(ripples) + 1
               /\ SubSeq(ripples', 1, Len(ripples)) = ripples
               /\ ripples'[Len(ripples')].actionType = ActionByLabel(lastEvent'.arg)
               /\ ripples'[Len(ripples')].startTime = clock
               /\ activityManager' =
                     addActivity(activityManager, ActionByLabel(lastEvent'.arg), clock)
      ]_vars

(* An action has been triggered in the middle of an Overload, the field    *)
(* holding a ripple spawned before it.                                     *)
C4_Witness ==
    /\ lastEvent.op \in {"mousePressed", "keyPressed"}
    /\ lastEvent.arg # null.label
    /\ activityManager.state = State.OVERLOAD
    /\ clock > activityManager.overloadStartTime
    /\ Len(ripples) = 1

(* The ripples of arr that are alive at time t, each with its age at t *)
Survivors(arr, t) ==
    SelectSeq([i \in DOMAIN arr |-> [arr[i] EXCEPT !.age = t - arr[i].startTime]],
              LAMBDA r : t - r.startTime < r.lifespan)

(* C7: Ripple.update(now) returns false exactly when now - startTime >=    *)
(* lifespan, and after a draw at time now the ripple array holds exactly   *)
(* the ripples it held before that have now - startTime < lifespan, in     *)
(* their order.                                                            *)
C7_ExpiryExact ==
    [][ IsDrawStep =>
          /\ \A i \in DOMAIN ripples :
                rippleUpdate(ripples[i], clock').alive
                   = (clock' - ripples[i].startTime < ripples[i].lifespan)
          /\ ripples' = Survivors(ripples, clock')
      ]_vars

(* A draw has dropped a ripple and kept a later one *)
C7_Witness ==
    /\ lastEvent.op = "draw"
    /\ \E k \in DOMAIN frame : frame[k].index > k
    /\ Len(ripples) = Len(frame)

(* The ripple array as the filter callback on element i sees it at time t: *)
(* the elements up to i have had update(t) called, the later ones not yet. *)
ArrayAtCallback(arr, i, t) ==
    [j \in DOMAIN arr |->
        IF j <= i THEN [arr[j] EXCEPT !.age = t - arr[j].startTime] ELSE arr[j]]

(* C8: in a draw, a surviving ripple is rendered with its amplitude scaled *)
(* by 0.3 exactly if some other ripple that survives the same draw         *)
(* satisfies shouldDamp against it when it is tested; a ripple dropped in  *)
(* the draw damps nothing.                                                 *)
C8_DampedBySurvivorsOnly ==
    [][ IsDrawStep =>
          \A k \in DOMAIN frame' :
             LET i == frame'[k].index
                 seen == ArrayAtCallback(ripples, i, clock')
             IN  (10 * frame'[k].ripple.amplitude = 3 * ripples[i].amplitude)
                    <=> \E j \in DOMAIN ripples :
                           /\ j # i
                           /\ clock' - ripples[j].startTime < ripples[j].lifespan
                           /\ shouldDamp(seen, j, i)
      ]_vars

(* What a draw at time t makes of the array arr: the ripples that survive, *)
(* each with whether it was rendered damped.                               *)
Outcome(arr, t) ==
    LET f == filterRipples(arr, 1, t, << >>, << >>)
    IN  { [x |-> f.ripples[k].x, y |-> f.ripples[k].y,
           actionType |-> f.ripples[k].actionType,
           startTime |-> f.ripples[k].startTime,
           damped |-> f.frame[k].damped] : k \in DOMAIN f.frame }

(* The orders the ripples of the array can be in: the array is in the      *)
(* order of the actions, so ripples of the same start time can be in       *)
(* either order.                                                           *)
Reorderings(arr) ==
    { [i \in DOMAIN arr |-> arr[p[i]]] : p \in
        { q \in Permutations(DOMAIN arr) :
            \A i, j \in DOMAIN arr :
               i < j => arr[q[i]].startTime <= arr[q[j]].startTime } }

(* C9: for the ripples of the array and any time of the next draw, which   *)
(* ripples survive and which are rendered damped is the same in every      *)
(* order of the array.                                                     *)
C9_OrderIrrelevant ==
    \A arr \in Reorderings(ripples) :
       \A d \in TickDeltas :
          Outcome(arr, clock + d) = Outcome(ripples, clock + d)

Ageless(ripple) == [ripple EXCEPT !.age = 0]

FreshRipples ==
    { Ripple(getSpawnPoint(a, stream).x, getSpawnPoint(a, stream).y, a, clock, stream) :
        a \in ActionObjects, stream \in RandomStreams }

(* C10: every ripple of the array is, in all but its age, as its           *)
(* constructor made it: no step changes the amplitude, maxRadius, damping, *)
(* speed, lifespan, position, kind or startTime of a ripple that stays in  *)
(* the array, damped or not, and the only ripples that enter it are new.   *)
C10_OnlyAgeChanges ==
    [][ /\ \A i \in DOMAIN ripples' :
              \/ \E j \in DOMAIN ripples : Ageless(ripples'[i]) = Ageless(ripples[j])
              \/ ripples'[i] \in FreshRipples
        /\ \A i \in DOMAIN ripples' :
              LET r == ripples'[i]
                  params == getActionParams(r.actionType)
              IN  /\ r.amplitude = params.amplitude
                  /\ r.maxRadius = params.maxRadius
                  /\ r.damping = params.damping
                  /\ r.speed = params.speed
                  /\ r.lifespan = params.lifespan
      ]_vars

(* A draw has rendered a ripple at 0.3 of its amplitude, and the ripple    *)
(* in the array has its full amplitude.                                    *)
C10_Witness ==
    /\ lastEvent.op = "draw"
    /\ Len(ripples) = Len(frame)
    /\ \E k \in DOMAIN frame :
          /\ frame[k].damped
          /\ 10 * frame[k].ripple.amplitude = 3 * ripples[k].amplitude
          /\ ripples[k].amplitude = getActionParams(ripples[k].actionType).amplitude

RECURSIVE GCD(_, _)
GCD(a, b) == IF b = 0 THEN a ELSE GCD(b, a % b)

(* The distance between the positions of a and b is strictly less than 1.5 *)
(* times the current radius of a: the radius is the fraction num / den,    *)
(* and dist < n / d exactly if dist^2 * d^2 < n^2 (n / d in lowest terms). *)
WithinOneAndAHalfRadii(a, b) ==
    LET radius == getCurrentRadius(a)
        g == GCD(3 * radius.num, 2 * radius.den)
        n == (3 * radius.num) \div g
        d == (2 * radius.den) \div g
        dx == a.x - b.x
        dy == a.y - b.y
    IN  (dx * dx + dy * dy) * d * d < n * n

ProbeDistances == {0, 100, 149, 150, 151, 200}

(* C11: a.shouldDamp(b) is true exactly if a is of the Silence kind, b is  *)
(* not a itself and the distance between their positions is strictly less  *)
(* than 1.5 * a.getCurrentRadius(); so it is false for a = b and for a     *)
(* source of any other kind, and a Silence ripple of radius 100 damps a    *)
(* ripple at distance d exactly if d < 150.                                *)
C11_ShouldDampExact ==
    /\ \A a, b \in DOMAIN ripples :
          shouldDamp(ripples, a, b)
             <=> ( /\ ripples[a].actionType = Actions.NEGATIVE_COMMENT
                   /\ a # b
                   /\ WithinOneAndAHalfRadii(ripples[a], ripples[b]) )
    /\ \A a, b \in DOMAIN ripples : \A d \in ProbeDistances :
          LET source == [ripples[a] EXCEPT !.age = 2800]
              target == [ripples[b] EXCEPT !.x = source.x + d, !.y = source.y]
              radius == getCurrentRadius(source)
          IN  ( /\ source.actionType = Actions.NEGATIVE_COMMENT
                /\ radius.num = 100 * radius.den )
                 => (shouldDamp(<<source, target>>, 1, 2) <=> d < 150)

(* The array holds a Silence ripple that has grown and damps the other     *)
(* ripple, and does not damp itself.                                       *)
C11_Witness ==
    \E a, b \in DOMAIN ripples :
       /\ shouldDamp(ripples, a, b)
       /\ ripples[a].age > 0
       /\ ~shouldDamp(ripples, a, a)
       /\ ~shouldDamp(ripples, b, a)

(* lerp(a, b, num / den) in units of 1/unit *)
lerp(a, b, num, den, unit) == a * unit + ((b - a) * num * unit) \div den

(* C12: after every update tick blackoutAlpha is in [0, 255] and is the    *)
(* function of the state and of the time spent in it: 0 in Calm and        *)
(* Active; lerp(0, 255, elapsed / 2000) in Overload while elapsed < 2000   *)
(* and 255 from 2000 on; lerp(255, 0, elapsed / 3000) in Recover.  At the  *)
(* step that enters Overload it is 0.                                      *)
C12_BlackoutAlpha ==
    [][ /\ IsUpdateStep =>
             LET am == activityManager'
                 inOverload == clock' - am.overloadStartTime
                 inRecover == clock' - am.recoverStartTime
             IN  /\ am.blackoutAlpha >= 0
                 /\ am.blackoutAlpha <= 255 * AlphaUnit
                 /\ am.state \in {State.CALM, State.ACTIVE} => am.blackoutAlpha = 0
                 /\ am.state = State.OVERLOAD =>
                       am.blackoutAlpha =
                          IF inOverload < 2000
                          THEN lerp(0, 255, inOverload, 2000, AlphaUnit)
                          ELSE 255 * AlphaUnit
                 /\ am.state = State.RECOVER =>
                       am.blackoutAlpha = lerp(255, 0, inRecover, 3000, AlphaUnit)
        /\ (activityManager.state # State.OVERLOAD /\ activityManager'.state = State.OVERLOAD)
              => activityManager'.blackoutAlpha = 0
      ]_vars

(* A tick in the middle of the fade-out of a Recover *)
C12_Witness ==
    /\ lastEvent.op = "update"
    /\ activityManager.state = State.RECOVER
    /\ activityManager.blackoutAlpha > 0
    /\ activityManager.blackoutAlpha < 255 * AlphaUnit
    /\ clock > activityManager.recoverStartTime

(* C13: an update tick never raises the meter and addActivity never lowers *)
(* it; a step that raises it is an addActivity, and a step that lowers it  *)
(* is an update tick that either applies the decay of Calm and Active or   *)
(* makes the reset to 0.3 of Recover -> Calm.                              *)
C13_MeterDirection ==
    [][ /\ IsUpdateStep => activityManager'.meter <= activityManager.meter
        /\ IsAddActivityStep => activityManager'.meter >= activityManager.meter
        /\ activityManager'.meter > activityManager.meter => IsAddActivityStep
        /\ activityManager'.meter < activityManager.meter =>
              /\ IsUpdateStep
              /\ \/ /\ activityManager.state \in {State.CALM, State.ACTIVE}
                    /\ activityManager'.meter =
                          max(0, activityManager.meter - activityManager.decayRate)
                 \/ /\ activityManager.state = State.RECOVER
                    /\ activityManager'.state = State.CALM
                    /\ activityManager'.meter = (3 * MeterUnit) \div 10
      ]_vars

(* The reset of a Recover has been made, and an addition after it has made *)
(* the state Active.                                                       *)
C13_Witness ==
    /\ lastEvent.op = "addActivity"
    /\ activityManager.state = State.ACTIVE
    /\ activityManager.recoverStartTime > 8000
    /\ activityManager.meter > (3 * MeterUnit) \div 10
    /\ clock >= activityManager.recoverStartTime + 3000

(* C14: with ticks that keep occurring and a clock that keeps advancing,   *)
(* every entry into Overload is eventually followed by the state Calm,     *)
(* whatever addActivity calls are made in the meantime.                    *)
C14_OverloadLeadsToCalm ==
    (activityManager.state = State.OVERLOAD) ~> (activityManager.state = State.CALM)

(* C15: addActivity with a kind that is not one of the four actions is     *)
(* rejected before any state is changed and is not given a default: it     *)
(* leaves the meter and the state as they are, and no ripple is added.     *)
C15_UnrecognizedRejected ==
    [][ ( /\ IsAddActivityStep
          /\ lastEvent'.arg \notin {a.label : a \in ActionObjects} )
           => /\ activityManager'.meter = activityManager.meter
              /\ activityManager'.state = activityManager.state
              /\ ripples' = ripples
      ]_vars

(* The positions in the random stream a call can have: every value the     *)
(* generator produces is the value of one of them.                         *)
CallPositions == 1..4

(* C16: for every reachable meter, getBackgroundTurbulence() is            *)
(* 0.3 + 1.2 * meter cut to [0.3, 1.5]; getVignetteIntensity() is in       *)
(* [0, 0.8] and is 0 when meter <= 0.5; getFlickerIntensity() is 0 when    *)
(* meter <= 0.7 and otherwise in [0, U], U being (meter - 0.7) cut to      *)
(* [0, 0.3], so it is never above 0.3.                                     *)
C16_ModulationRanges ==
    LET am == activityManager
        m == am.meter
        linear == (3 * ModulationUnit) \div 10 + (12 * m * ModulationUnit) \div (10 * MeterUnit)
        U == IF m >= 1 * MeterUnit THEN (3 * ModulationUnit) \div 10
             ELSE IF 10 * m <= 7 * MeterUnit THEN 0
             ELSE ((10 * m - 7 * MeterUnit) * ModulationUnit) \div (10 * MeterUnit)
    IN  /\ getBackgroundTurbulence(am) =
              IF 10 * linear < 3 * ModulationUnit THEN (3 * ModulationUnit) \div 10
              ELSE IF 10 * linear > 15 * ModulationUnit THEN (15 * ModulationUnit) \div 10
              ELSE linear
        /\ getVignetteIntensity(am) >= 0
        /\ 10 * getVignetteIntensity(am) <= 8 * ModulationUnit
        /\ 10 * m <= 5 * MeterUnit => getVignetteIntensity(am) = 0
        /\ \A stream \in RandomStreams, k \in CallPositions :
              LET flicker == getFlickerIntensity(am, stream, k)
              IN  /\ 10 * m <= 7 * MeterUnit => flicker = 0
                  /\ flicker >= 0
                  /\ flicker <= U
                  /\ 10 * flicker <= 3 * ModulationUnit

(* The meter is above the overload threshold, where the maps are cut, and  *)
(* a flicker value above 0.2 has been drawn.                               *)
C16_Witness ==
    /\ activityManager.meter > 1 * MeterUnit
    /\ 10 * getBackgroundTurbulence(activityManager) = 15 * ModulationUnit
    /\ 10 * getVignetteIntensity(activityManager) = 8 * ModulationUnit
    /\ \E stream \in RandomStreams, k \in CallPositions :
          10 * getFlickerIntensity(activityManager, stream, k) > 2 * ModulationUnit

(* Ages at which the radius is looked at, beside the ages the ticks give,  *)
(* in increasing order (non-decreasing from each to the next is            *)
(* non-decreasing over all):                                               *)
(* within the lifespan, at it, and long after it (the four kinds reach     *)
(* maxRadius at 3750, 6858, 7000 and 14000 ms).                            *)
ProbeAges == <<0, 1, 500, 2500, 3000, 3500, 3750, 4000, 6857, 6858, 7000, 14000, 20000>>

(* The ripple of the array after a draw that was element i before it *)
SurvivorOf(arr, i, t) ==
    Cardinality({j \in 1..i : t - arr[j].startTime < arr[j].lifespan})

(* C17: for every ripple getCurrentRadius() is                             *)
(* min((age / lifespan) * speed * 50, maxRadius) and lies in               *)
(* [0, maxRadius]; from one tick to the next the radius of a ripple does   *)
(* not decrease; as a function of the age (looked at for each ripple when  *)
(* it is constructed) it is non-decreasing and stays at maxRadius once it  *)
(* has reached it.                                                         *)
C17_RadiusMonotone ==
    [][ /\ \A i \in DOMAIN ripples' :
              LET r == ripples'[i]
                  radius == getCurrentRadius(r)
              IN  /\ radius.den = r.lifespan
                  /\ 10 * radius.num =
                        min(r.age * r.speed * 50, 10 * r.maxRadius * r.lifespan)
                  /\ radius.num >= 0
                  /\ radius.num <= r.maxRadius * radius.den
        /\ Len(ripples') > Len(ripples) =>
              LET r == ripples'[Len(ripples')]
              IN  \A n \in 1..(Len(ProbeAges) - 1) :
                     \A r1 \in {getCurrentRadius([r EXCEPT !.age = ProbeAges[n]])} :
                     \A r2 \in {getCurrentRadius([r EXCEPT !.age = ProbeAges[n + 1]])} :
                        /\ ProbeAges[n] < ProbeAges[n + 1]
                        /\ r1.num >= 0
                        /\ r1.num <= r2.num
                        /\ r2.num <= r.maxRadius * r2.den
                        /\ r1.num = r.maxRadius * r1.den => r2.num = r1.num
        /\ IsDrawStep =>
              \A i \in DOMAIN ripples :
                 rippleUpdate(ripples[i], clock').alive =>
                    LET k == SurvivorOf(ripples, i, clock')
                    IN  /\ Ageless(ripples'[k]) = Ageless(ripples[i])
                        /\ getCurrentRadius(ripples'[k]).den = getCurrentRadius(ripples[i]).den
                        /\ getCurrentRadius(ripples'[k]).num >= getCurrentRadius(ripples[i]).num
      ]_vars

(* A ripple has been through two ticks or more and its radius has grown *)
C17_Witness ==
    /\ lastEvent.op = "draw"
    /\ \E i \in DOMAIN ripples :
          /\ ripples[i].age = 3000
          /\ getCurrentRadius(ripples[i]).num > 0
          /\ getCurrentRadius(ripples[i]).num < ripples[i].maxRadius * ripples[i].lifespan

(* The random streams a constructor can be given: over them the angle, the *)
(* distance, the start offset and the radius of a micro-ripple each take   *)
(* every value the generator has.                                          *)
AllStreams == 0..3

(* What C18 says of the micro-ripples of one ripple (radius in half pixels) *)
MicroRipplesAsClaimed(ripple) ==
    IF ripple.actionType = Actions.POSITIVE_COMMENT
    THEN /\ Len(ripple.microRipples) = 15
         /\ \A micro \in {ripple.microRipples[i] : i \in DOMAIN ripple.microRipples} :
               LET dx == micro.x - ripple.x
                   dy == micro.y - ripple.y
               IN  /\ micro.radius >= 2 * 30
                   /\ micro.radius <= 2 * 60
                   /\ micro.startTime >= ripple.startTime - 100
                   /\ micro.startTime <= ripple.startTime + 100
                   /\ dx * dx + dy * dy >= 20 * 20
                   /\ dx * dx + dy * dy <= 80 * 80
    ELSE Len(ripple.microRipples) = 0

(* C18: a ripple of the Noise (positive comment) kind is constructed with  *)
(* exactly 15 micro-ripples, each of radius in [30, 60], start time within *)
(* 100 ms of the ripple's and position at distance 20 to 80 from the       *)
(* ripple's, whatever values the random generator gives; a ripple of       *)
(* another kind has none; the micro-ripples of a ripple in the array never *)
(* change.                                                                 *)
C18_MicroRipples ==
    [][ /\ \A i \in DOMAIN ripples' : MicroRipplesAsClaimed(ripples'[i])
        /\ Len(ripples') > Len(ripples) =>
              \A stream \in AllStreams :
                 LET kind == ripples'[Len(ripples')].actionType
                     at == getSpawnPoint(kind, stream)
                 IN  \A ripple \in {Ripple(at.x, at.y, kind, clock', stream)} :
                        MicroRipplesAsClaimed(ripple)
        /\ IF IsDrawStep
           THEN \A i \in DOMAIN ripples :
                   rippleUpdate(ripples[i], clock').alive =>
                      ripples'[SurvivorOf(ripples, i, clock')].microRipples
                         = ripples[i].microRipples
           ELSE \A i \in DOMAIN ripples :
                   ripples'[i].microRipples = ripples[i].microRipples
      ]_vars

(* The array holds a Noise ripple that has been through a draw, with its   *)
(* 15 micro-ripples, and a ripple of another kind                          *)
C18_Witness ==
    /\ lastEvent.op = "draw"
    /\ \E i, j \in DOMAIN ripples :
          /\ ripples[i].actionType = Actions.POSITIVE_COMMENT
          /\ ripples[i].age > 0
          /\ Len(ripples[i].microRipples) = 15
          /\ ripples[j].actionType # Actions.POSITIVE_COMMENT
          /\ ripples[j].microRipples = << >>

(* C19: an update tick in Calm or Active lowers the meter by exactly       *)
(* decayRate (0.001), not below 0, and then makes Active Calm exactly if   *)
(* the lowered meter is below 0.2; an update tick in Overload or Recover   *)
(* leaves the meter as it is, except that the tick which takes Recover to  *)
(* Calm sets it to 0.3, with no decay in that tick.                        *)
C19_DecayAndReset ==
    [][ IsUpdateStep =>
          LET am == activityManager
              decayed == max(0, am.meter - 1)
          IN  /\ am.decayRate * 1000 = 1 * MeterUnit
              /\ am.state = State.CALM =>
                    /\ activityManager'.meter = decayed
                    /\ activityManager'.state = State.CALM
              /\ am.state = State.ACTIVE =>
                    /\ activityManager'.meter = decayed
                    /\ activityManager'.state =
                          IF 10 * decayed < 2 * MeterUnit THEN State.CALM ELSE State.ACTIVE
              /\ am.state = State.OVERLOAD => activityManager'.meter = am.meter
              /\ am.state = State.RECOVER =>
                    activityManager'.meter =
                       IF activityManager'.state = State.CALM
                       THEN (3 * MeterUnit) \div 10
                       ELSE am.meter
      ]_vars

(* A tick in Active has lowered the meter to 0.2 exactly, and the state is *)
(* still Active.                                                           *)
C19_Witness ==
    /\ lastEvent.op = "update"
    /\ activityManager.state = State.ACTIVE
    /\ 10 * activityManager.meter = 2 * MeterUnit

(* C20: in every reachable state, Calm implies meter <= 0.3, Active        *)
(* implies 0.2 <= meter < 1.0, and Overload or Recover implies             *)
(* meter >= 1.0; so the meter is at or above the overload threshold        *)
(* exactly when the state is Overload or Recover.                          *)
C20_StateMeterBand ==
    LET am == activityManager
    IN  /\ am.state = State.CALM => 10 * am.meter <= 3 * MeterUnit
        /\ am.state = State.ACTIVE =>
              /\ 10 * am.meter >= 2 * MeterUnit
              /\ am.meter < 1 * MeterUnit
        /\ am.state \in {State.OVERLOAD, State.RECOVER} => am.meter >= 1 * MeterUnit
        /\ (am.meter >= am.overloadThreshold)
              <=> (am.state \in {State.OVERLOAD, State.RECOVER})

(* An addActivity has taken the meter to 0.3 exactly and the state is      *)
(* still Calm.                                                             *)
C20_Witness ==
    /\ lastEvent.op = "addActivity"
    /\ activityManager.state = State.CALM
    /\ 10 * activityManager.meter = 3 * MeterUnit

(* C21: a button click or key 1-4 while the state is Recover is accepted   *)
(* (a ripple is added) and puts the state back in Overload in that same    *)
(* handler, with overloadStartTime the current time and blackoutAlpha 0;   *)
(* the meter is not lowered in Overload or Recover, so it is 1.0 or more   *)
(* there; the Overload so entered is held until more than 7000 ms have     *)
(* passed since that entry; Recover is left only to Calm or Overload, and  *)
(* Active is entered only from Calm.                                       *)
C21_RecoverReentry ==
    [][ /\ (IsActionStep /\ activityManager.state = State.RECOVER) =>
              /\ Len(ripples') = Len(ripples) + 1
              /\ activityManager'.state = State.OVERLOAD
              /\ activityManager'.overloadStartTime = clock
              /\ activityManager'.blackoutAlpha = 0
              /\ activityManager'.meter >= activityManager.meter
        /\ activityManager.state \in {State.OVERLOAD, State.RECOVER} =>
              /\ activityManager.meter >= 1 * MeterUnit
              /\ (IsDrawStep /\ activityManager'.state # State.CALM) =>
                    activityManager'.meter = activityManager.meter
        /\ (IsDrawStep /\ activityManager.state = State.OVERLOAD) =>
              (activityManager'.state = State.OVERLOAD
                  <=> clock' - activityManager.overloadStartTime <= 7000)
        /\ activityManager.state = State.RECOVER =>
              activityManager'.state \in {State.RECOVER, State.CALM, State.OVERLOAD}
        /\ activityManager'.state = State.ACTIVE =>
              activityManager.state \in {State.ACTIVE, State.CALM}
      ]_vars

(* An Overload entered from Recover has been held for its whole period and *)
(* has ended in Recover again.                                             *)
C21_Witness ==
    /\ lastEvent.op = "draw"
    /\ activityManager.state = State.RECOVER
    /\ activityManager.overloadStartTime >= 12000
    /\ activityManager.recoverStartTime > activityManager.overloadStartTime + 7000

(* C22: while the state is Overload no step adds a ripple, and every draw  *)
(* still ages the ripples and drops the expired ones, so the number of     *)
(* ripples does not increase; every lifespan is at most 4000 ms, less than *)
(* the 7000 ms an Overload is held, and the ripple array is empty after    *)
(* the draw that changes the state from Overload to Recover.               *)
C22_FieldDrainsInOverload ==
    [][ /\ \A i \in DOMAIN ripples' :
              /\ ripples'[i].lifespan <= 4000
              /\ ripples'[i].lifespan < 7000
        /\ activityManager.state = State.OVERLOAD =>
              /\ Len(ripples') <= Len(ripples)
              /\ IsDrawStep => ripples' = Survivors(ripples, clock')
              /\ ~IsDrawStep => ripples' = ripples
        /\ ( /\ activityManager.state = State.OVERLOAD
             /\ activityManager'.state = State.RECOVER )
              => /\ IsDrawStep
                 /\ ripples' = << >>
      ]_vars

(* The draw that ends an Overload has run: the state has just become       *)
(* Recover.  The action that began the Overload had added a ripple.        *)
C22_Witness ==
    /\ lastEvent.op = "draw"
    /\ activityManager.state = State.RECOVER
    /\ activityManager.recoverStartTime = clock
    /\ ripples = << >>

====
